---- MODULE Spec2Model ----
(***************************************************************************)
(* Broke-No-More: chunker (src/src/utils.py) and JSON document store with  *)
(* lexical search (src/src/knowledge_base_simple.py).                      *)
(*                                                                         *)
(* A text is a sequence of one-character strings.  Python indices are      *)
(* 0-based; the element at Python index i is s[i + 1] here.                *)
(***************************************************************************)
EXTENDS Integers, Sequences, FiniteSets, TLC

VARIABLES
    text, chunk_size, chunk_overlap,  \* arguments of the running chunk_text call
    start, chunks, cpc, iter,         \* chunk_text: locals, position, iterations run
    windows,                          \* chunk_text: the slices text[start:end] taken so far
    documents,                        \* SimpleKnowledgeBase.documents of each instance
    disk,                             \* the file knowledge_base.json
    last,                             \* the call that returned last, with its result
    flight,                           \* the mutating call a session is in the middle of
    ask,                              \* the question handler of the app: one question
    probe,                            \* a query scored against a chunk and a grown chunk
    extract,                          \* a PDF text extraction: pages, position, text
    folder                            \* data/documents: its files, the scans run over it

chunkVars == <<text, chunk_size, chunk_overlap, start, chunks, cpc, iter, windows>>
storeVars == <<documents, disk, last>>
vars == <<text, chunk_size, chunk_overlap, start, chunks, cpc, iter, windows,
          documents, disk, last, flight, ask, probe, extract, folder>>

\* ------------------------------------------------------------------ bounds
MaxTextLen == 5
MaxChunkSize == 3
MaxOverlap == 3
MaxIter == 7

\* ------------------------------------------------------- program constants
CHUNK_SIZE == 1000
CHUNK_OVERLAP == 200
TOP_K_RESULTS == 5
\* SIMILARITY_THRESHOLD = 0.7, in hundredths
SIMILARITY_THRESHOLD_PCT == 70

\* ------------------------------------------------------------ str helpers
Min(a, b) == IF a < b THEN a ELSE b

MaxOf(S) == CHOOSE x \in S : \A y \in S : y <= x

\* str.isspace for one character
IsSpace(c) == c \in {" ", "\n", "\t"}

\* str.lower for one character
LowerChar(c) == IF c = "A" THEN "a" ELSE IF c = "B" THEN "b" ELSE c

\* a lower() that leaves every character as it is
Lower_identity(s) == s

\* str.lower
Lower(s) == [i \in 1..Len(s) |-> LowerChar(s[i])]

\* s[a:b] for 0 <= a
Slice(s, a, b) == SubSeq(s, a + 1, Min(b, Len(s)))

\* s.rfind(c, a, b) for a one-character c: the highest index in [a, b), or -1
RFind(s, c, a, b) ==
    LET hits == {i \in a..(Min(b, Len(s)) - 1) : s[i + 1] = c}
    IN  IF hits = {} THEN -1 ELSE MaxOf(hits)

\* s.strip()
Strip(s) ==
    LET solid == {i \in 1..Len(s) : ~IsSpace(s[i])}
    IN  IF solid = {} THEN <<>>
        ELSE SubSeq(s, CHOOSE i \in solid : \A j \in solid : i <= j, MaxOf(solid))

\* set(s.split()): the maximal runs of non-whitespace characters
WordSet(s) ==
    {SubSeq(s, i, j) : <<i, j>> \in
        {p \in (1..Len(s)) \X (1..Len(s)) :
            /\ p[1] <= p[2]
            /\ \A k \in p[1]..p[2] : ~IsSpace(s[k])
            /\ (p[1] = 1 \/ IsSpace(s[p[1] - 1]))
            /\ (p[2] = Len(s) \/ IsSpace(s[p[2] + 1]))}}

RECURSIVE CountFrom(_, _, _)
CountFrom(s, sub, i) ==
    IF i + Len(sub) > Len(s) THEN 0
    ELSE IF SubSeq(s, i + 1, i + Len(sub)) = sub
         THEN 1 + CountFrom(s, sub, i + Len(sub))
         ELSE CountFrom(s, sub, i + 1)

\* s.count(sub): non-overlapping occurrences; the empty string occurs
\* len(s) + 1 times
Count(s, sub) == IF sub = <<>> THEN Len(s) + 1 ELSE CountFrom(s, sub, 0)

\* -------------------------------------------------------------- chunk_text
\* a cut always at st + size
CutEnd_hard(t, st, size) == st + size

\* a cut at the last period or space of the window, wherever it lies
CutEnd_any_boundary(t, st, size) ==
    LET end == st + size
        sentence_end == RFind(t, ".", st, end)
        word_end == RFind(t, " ", st, end)
    IN  IF end < Len(t)
        THEN IF sentence_end # -1 THEN sentence_end + 1
             ELSE IF word_end # -1 THEN word_end
             ELSE end
        ELSE end

\* the cut position of the window that starts at st (utils.py:110-122)
CutEnd(t, st, size) ==
    LET end == st + size
        sentence_end == RFind(t, ".", st, end)
        word_end == RFind(t, " ", st, end)
    IN  IF end < Len(t)
        THEN IF sentence_end # -1 /\ sentence_end > st + size \div 2
             THEN sentence_end + 1
             ELSE IF word_end # -1 /\ word_end > st + size \div 2
                  THEN word_end
                  ELSE end
        ELSE end

\* a next window start that steps over the character at the cut
NextStart_skip(end, overlap) == end + 1

\* the next window start (utils.py:129-131)
NextStart(end, overlap) ==
    IF end - overlap <= 0 THEN end ELSE end - overlap

\* chunks after appending the stripped piece, dropped when empty (utils.py:124-126)
WithChunk(cs, t, st, end) ==
    IF Strip(Slice(t, st, end)) # <<>> THEN Append(cs, Strip(Slice(t, st, end))) ELSE cs

RECURSIVE ChunkLoop(_, _, _, _, _)
ChunkLoop(t, size, overlap, st, cs) ==
    IF st < Len(t)
    THEN ChunkLoop(t, size, overlap, NextStart(CutEnd(t, st, size), overlap),
                   WithChunk(cs, t, st, CutEnd(t, st, size)))
    ELSE cs

\* chunk_text as a function of its arguments, where it returns
chunk_text(t, size, overlap) ==
    IF Len(t) <= size THEN <<t>> ELSE ChunkLoop(t, size, overlap, 0, <<>>)

\* ---------------------------------------------------- SimpleKnowledgeBase
Instances == {1, 2}

NoLast == [op |-> "none", inst |-> 0, ret |-> FALSE, outcome |-> "none",
           hash |-> 0, query |-> <<>>, top_k |-> 0, results |-> <<>>]

\* one byte per character, as content.encode() gives for these characters
CharCode(c) ==
    IF c = "a" THEN 1 ELSE IF c = "b" THEN 2 ELSE IF c = "A" THEN 3
    ELSE IF c = "B" THEN 4 ELSE IF c = " " THEN 5 ELSE IF c = "." THEN 6 ELSE 7

RECURSIVE Digest(_, _)
Digest(s, acc) == IF s = <<>> THEN acc ELSE Digest(Tail(s), acc * 8 + CharCode(Head(s)))

\* hashlib.md5(content).hexdigest(): a function of the bytes alone, with no
\* collisions among the texts of the model
get_file_hash(content) == Digest(content, 1)

\* JSON values as json.dump writes them and json.load reads them
JString(v) == [json |-> "string", value |-> v]
JNumber(n) == [json |-> "number", value |-> n]
JArray(items) == [json |-> "array", items |-> items]
JObject(members) == [json |-> "object", members |-> members]

\* a metadata entry: file_size is an int, every other value a str
\* (app.py:160-165)
DumpMember(key, value) == IF key = "file_size" THEN JNumber(value) ELSE JString(value)

\* a document written without its metadata
json_dump_document_no_metadata(doc) ==
    JObject([title |-> JString(doc.title),
             filename |-> JString(doc.filename),
             file_type |-> JString(doc.file_type),
             doc_hash |-> JString(doc.doc_hash),
             content |-> JString(doc.content),
             chunks |-> JArray([k \in 1..Len(doc.chunks) |-> JString(doc.chunks[k])]),
             total_chunks |-> JNumber(doc.total_chunks),
             metadata |-> JObject(<<>>)])

\* json.dump of one document dictionary (knowledge_base_simple.py:38)
json_dump_document(doc) ==
    JObject([title |-> JString(doc.title),
             filename |-> JString(doc.filename),
             file_type |-> JString(doc.file_type),
             doc_hash |-> JString(doc.doc_hash),
             content |-> JString(doc.content),
             chunks |-> JArray([k \in 1..Len(doc.chunks) |-> JString(doc.chunks[k])]),
             total_chunks |-> JNumber(doc.total_chunks),
             metadata |-> JObject([key \in DOMAIN doc.metadata |->
                                      DumpMember(key, doc.metadata[key])])])

\* json.dump(self.documents, f) (knowledge_base_simple.py:38)
json_dump(docs) == JArray([k \in 1..Len(docs) |-> json_dump_document(docs[k])])

\* json.load of one document object (knowledge_base_simple.py:27)
json_load_document(j) ==
    [title |-> j.members.title.value,
     filename |-> j.members.filename.value,
     file_type |-> j.members.file_type.value,
     doc_hash |-> j.members.doc_hash.value,
     content |-> j.members.content.value,
     chunks |-> [k \in 1..Len(j.members.chunks.items) |-> j.members.chunks.items[k].value],
     total_chunks |-> j.members.total_chunks.value,
     metadata |-> [key \in DOMAIN j.members.metadata.members |->
                      j.members.metadata.members[key].value]]

\* json.load(f) (knowledge_base_simple.py:27)
json_load(j) == [k \in 1..Len(j.items) |-> json_load_document(j.items[k])]

\* the file holds no text that parses
NoText == JArray(<<>>)

\* json.load of the file, [] when it is absent or does not parse
\* (knowledge_base_simple.py:22-31)
LoadDocuments(d) == IF d.state = "valid" THEN json_load(d.docs) ELSE <<>>

SaveFailures == {"before_open", "after_open", "mid_dump"}

\* the file after _save_documents(docs): open(.., 'w') truncates it and
\* json.dump streams into it, so a failure after the open leaves an empty file
\* or a prefix of the JSON text (knowledge_base_simple.py:35-42)
SaveDocuments(d, docs, fail) ==
    IF fail = "none" THEN [state |-> "valid", docs |-> json_dump(docs)]
    ELSE IF fail = "before_open" THEN d
    ELSE [state |-> "unparseable", docs |-> NoText]

\* the value _save_documents returns
SaveOk(fail) == fail = "none"

\* mutant: only the first stored document is compared
document_exists_first_only(docs, doc_hash) ==
    docs # <<>> /\ docs[1].doc_hash = doc_hash

\* knowledge_base_simple.py:155-157
document_exists(docs, doc_hash) ==
    \E k \in 1..Len(docs) : docs[k].doc_hash = doc_hash

\* mutant: "not content" without the strip
ContentIsEmpty_no_strip(content) == content = <<>>

\* "not content or not content.strip()" (knowledge_base_simple.py:53)
ContentIsEmpty(content) == content = <<>> \/ Strip(content) = <<>>

\* the record built at knowledge_base_simple.py:48-51, 58-78, called with
\* title and content (filename = title, file_type = "text")
MakeDocument(title, content, metadata) ==
    [title |-> title,
     filename |-> title,
     file_type |-> "text",
     doc_hash |-> get_file_hash(content),
     content |-> content,
     chunks |-> chunk_text(content, CHUNK_SIZE, CHUNK_OVERLAP),
     total_chunks |-> Len(chunk_text(content, CHUNK_SIZE, CHUNK_OVERLAP)),
     metadata |-> metadata]

\* self.documents.pop() (knowledge_base_simple.py:87)
Pop(docs) == SubSeq(docs, 1, Len(docs) - 1)

\* mutant: the first document is dropped, whatever its doc_hash
DocsWithout_drop_first(docs, doc_hash) ==
    IF docs = <<>> THEN <<>> ELSE Tail(docs)

\* [doc for doc in self.documents if doc['doc_hash'] != doc_hash]
\* (knowledge_base_simple.py:178)
RECURSIVE DocsWithout(_, _)
DocsWithout(docs, doc_hash) ==
    IF docs = <<>> THEN <<>>
    ELSE IF Head(docs).doc_hash # doc_hash
         THEN <<Head(docs)>> \o DocsWithout(Tail(docs), doc_hash)
         ELSE DocsWithout(Tail(docs), doc_hash)

\* get_all_documents / list_documents (knowledge_base_simple.py:151-172)
get_all_documents(docs) ==
    [k \in 1..Len(docs) |->
        [title |-> docs[k].title,
         filename |-> docs[k].filename,
         file_type |-> docs[k].file_type,
         doc_hash |-> docs[k].doc_hash,
         total_chunks |-> docs[k].total_chunks,
         metadata |-> docs[k].metadata]]

\* __init__: a new instance loads the file (knowledge_base_simple.py:14-20)
Construct(i) ==
    /\ documents' = [documents EXCEPT ![i] = LoadDocuments(disk)]
    /\ last' = [NoLast EXCEPT !.op = "construct", !.inst = i, !.ret = TRUE,
                              !.outcome = "loaded"]
    /\ UNCHANGED disk
    /\ UNCHANGED <<chunkVars, flight, ask, probe, extract, folder>>

\* add_document (knowledge_base_simple.py:44-92)
AddDocument(i, title, content, metadata, fail) ==
    LET doc_hash == get_file_hash(content)
        appended == Append(documents[i], MakeDocument(title, content, metadata))
        done(outcome, ret) == [NoLast EXCEPT !.op = "add", !.inst = i, !.ret = ret,
                                             !.outcome = outcome, !.hash = doc_hash]
    IN  /\ IF ContentIsEmpty(content)
           THEN /\ last' = done("empty", FALSE)
                /\ UNCHANGED <<documents, disk>>
           ELSE IF document_exists(documents[i], doc_hash)
           THEN /\ last' = done("duplicate", FALSE)
                /\ UNCHANGED <<documents, disk>>
           ELSE /\ disk' = SaveDocuments(disk, appended, fail)
                /\ IF SaveOk(fail)
                   THEN /\ documents' = [documents EXCEPT ![i] = appended]
                        /\ last' = done("added", TRUE)
                   ELSE /\ documents' = [documents EXCEPT ![i] = Pop(appended)]
                        /\ last' = done("save_failed", FALSE)
        /\ UNCHANGED <<chunkVars, flight, ask, probe, extract, folder>>

\* delete_document (knowledge_base_simple.py:174-194)
DeleteDocument(i, doc_hash, fail) ==
    LET kept == DocsWithout(documents[i], doc_hash)
        done(outcome, ret) == [NoLast EXCEPT !.op = "delete", !.inst = i, !.ret = ret,
                                             !.outcome = outcome, !.hash = doc_hash]
    IN  /\ IF Len(kept) < Len(documents[i])
           THEN /\ disk' = SaveDocuments(disk, kept, fail)
                /\ IF SaveOk(fail)
                   THEN /\ documents' = [documents EXCEPT ![i] = kept]
                        /\ last' = done("deleted", TRUE)
                   ELSE /\ documents' = [documents EXCEPT ![i] = LoadDocuments(disk')]
                        /\ last' = done("save_failed", FALSE)
           ELSE /\ documents' = [documents EXCEPT ![i] = kept]
                /\ last' = done("not_found", FALSE)
                /\ UNCHANGED disk
        /\ UNCHANGED <<chunkVars, flight, ask, probe, extract, folder>>

\* clear_all (knowledge_base_simple.py:211-221)
ClearAll(i, fail) ==
    /\ documents' = [documents EXCEPT ![i] = <<>>]
    /\ disk' = SaveDocuments(disk, <<>>, fail)
    /\ last' = [NoLast EXCEPT !.op = "clear", !.inst = i, !.ret = SaveOk(fail),
                              !.outcome = IF SaveOk(fail) THEN "cleared" ELSE "save_failed"]
    /\ UNCHANGED <<chunkVars, flight, ask, probe, extract, folder>>

\* the relevance score of one chunk (knowledge_base_simple.py:104-123)
Score_weight1(chunk, query) ==
    Count(Lower(chunk), Lower(query))
        + Cardinality(WordSet(Lower(query)) \cap WordSet(Lower(chunk)))

Score(chunk, query) ==
    Count(Lower(chunk), Lower(query)) * 3
        + Cardinality(WordSet(Lower(query)) \cap WordSet(Lower(chunk)))

\* score / (len(query_words) + 3) without the min
Similarity_unclamped(score, query) ==
    [num |-> score, den |-> Cardinality(WordSet(Lower(query))) + 3]

\* min(score / (len(query_words) + 3), 1.0) as a fraction
\* (knowledge_base_simple.py:131)
Similarity(score, query) ==
    LET den == Cardinality(WordSet(Lower(query))) + 3
    IN  IF score >= den THEN [num |-> 1, den |-> 1] ELSE [num |-> score, den |-> den]

\* similarity >= settings.SIMILARITY_THRESHOLD / 2 (knowledge_base_simple.py:142)
PassesThreshold(sim) == sim.num * 200 >= SIMILARITY_THRESHOLD_PCT * sim.den

\* the entries one document appends to scored_chunks
\* (knowledge_base_simple.py:111-134)
ScoredOfDoc(doc, query) ==
    SelectSeq([k \in 1..Len(doc.chunks) |->
                  [content |-> doc.chunks[k],
                   title |-> doc.title,
                   filename |-> doc.filename,
                   file_type |-> doc.file_type,
                   similarity |-> Similarity(Score(doc.chunks[k], query), query),
                   chunk_index |-> k - 1,
                   score |-> Score(doc.chunks[k], query)]],
              LAMBDA r : r.score > 0)

RECURSIVE ScoredChunks(_, _)
ScoredChunks(docs, query) ==
    IF docs = <<>> THEN <<>>
    ELSE ScoredOfDoc(Head(docs), query) \o ScoredChunks(Tail(docs), query)

\* x placed in front of the entries with its own score
InsertByScore_unstable(sorted, x) ==
    LET before == Cardinality({k \in 1..Len(sorted) : sorted[k].score > x.score})
    IN  SubSeq(sorted, 1, before) \o <<x>> \o SubSeq(sorted, before + 1, Len(sorted))

\* x placed behind every entry whose score is at least its own
InsertByScore(sorted, x) ==
    LET before == Cardinality({k \in 1..Len(sorted) : sorted[k].score >= x.score})
    IN  SubSeq(sorted, 1, before) \o <<x>> \o SubSeq(sorted, before + 1, Len(sorted))

\* scored_chunks.sort(key=score, reverse=True): stable
\* (knowledge_base_simple.py:137)
RECURSIVE SortByScore(_)
SortByScore(seq) ==
    IF seq = <<>> THEN <<>>
    ELSE InsertByScore(SortByScore(SubSeq(seq, 1, Len(seq) - 1)), seq[Len(seq)])

\* a search that returns the top_k ranked chunks whatever their similarity
search_documents_no_floor(docs, query, top_k) ==
    Slice(SortByScore(ScoredChunks(docs, query)), 0, top_k)

\* search / search_documents (knowledge_base_simple.py:94-149)
search_documents(docs, query, top_k) ==
    SelectSeq(Slice(SortByScore(ScoredChunks(docs, query)), 0, top_k),
              LAMBDA r : PassesThreshold(r.similarity))

\* a search call on instance i
Search(i, query, top_k) ==
    /\ last' = [NoLast EXCEPT !.op = "search", !.inst = i, !.ret = TRUE,
                              !.outcome = "searched", !.query = query,
                              !.top_k = top_k,
                              !.results = search_documents(documents[i], query, top_k)]
    /\ UNCHANGED <<documents, disk>>
    /\ UNCHANGED <<chunkVars, flight, ask, probe, extract, folder>>

ChunkAlphabet == {"a", " ", "."}

RECURSIVE TextsOver(_, _)
TextsOver(A, n) ==
    IF n = 0 THEN {<<>>}
    ELSE TextsOver(A, n - 1) \cup
         {Append(s, c) : <<s, c>> \in {s \in TextsOver(A, n - 1) : Len(s) = n - 1} \X A}

\* chunk_text entered: the size test of utils.py:102-106
ChunkEnter ==
    /\ cpc = "entry"
    /\ IF Len(text) <= chunk_size
       THEN /\ chunks' = <<text>>
            /\ windows' = <<<<0, Len(text)>>>>
            /\ cpc' = "done"
       ELSE /\ chunks' = <<>>
            /\ windows' = <<>>
            /\ cpc' = "loop"
    /\ start' = 0
    /\ UNCHANGED <<text, chunk_size, chunk_overlap, iter>>
    /\ UNCHANGED <<storeVars, flight, ask, probe, extract, folder>>

\* one iteration of the while loop (utils.py:108-131)
ChunkIterate ==
    /\ cpc = "loop"
    /\ start < Len(text)
    /\ iter < MaxIter
    /\ chunks' = WithChunk(chunks, text, start, CutEnd(text, start, chunk_size))
    /\ start' = NextStart(CutEnd(text, start, chunk_size), chunk_overlap)
    /\ windows' = Append(windows, <<start, CutEnd(text, start, chunk_size)>>)
    /\ iter' = iter + 1
    /\ UNCHANGED <<text, chunk_size, chunk_overlap, cpc>>
    /\ UNCHANGED <<storeVars, flight, ask, probe, extract, folder>>

\* the loop condition fails: return chunks (utils.py:108, 133)
ChunkReturn ==
    /\ cpc = "loop"
    /\ ~(start < Len(text))
    /\ cpc' = "done"
    /\ UNCHANGED <<text, chunk_size, chunk_overlap, start, chunks, iter, windows>>
    /\ UNCHANGED <<storeVars, flight, ask, probe, extract, folder>>

\* no mutating call in flight
NoFlight == [pc |-> "idle", op |-> "none", inst |-> 0, hash |-> 0,
             before |-> <<>>, file |-> <<>>, target |-> <<>>]

\* no question being handled
NoPrompt == [context |-> [text |-> "", materials |-> <<>>], question |-> <<>>]

NoRaw == [kind |-> "none", body |-> <<>>]

NoResponse == [answer |-> <<>>, confidence |-> 0, sources |-> <<>>]

NoAsk == [pc |-> "idle", question |-> <<>>, relevant_docs |-> <<>>,
          prompt |-> NoPrompt, raw |-> NoRaw, response |-> NoResponse,
          shown |-> <<>>, calls |-> <<>>, path |-> <<>>]

\* nothing being scored
NoProbe == [pc |-> "idle", query |-> <<>>, chunk |-> <<>>, grown |-> <<>>,
            score |-> 0, grown_score |-> 0]

\* no extraction running
NoExtract == [pc |-> "idle", pages |-> <<>>, page |-> 0, text |-> <<>>,
              result |-> [none |-> FALSE, text |-> <<>>]]

\* no documents folder looked at
NoFolder == [files |-> <<>>, runs |-> 0]

OthersIdle ==
    /\ flight = NoFlight
    /\ ask = NoAsk
    /\ probe = NoProbe
    /\ extract = NoExtract
    /\ folder = NoFolder

StoreIdle ==
    /\ documents = [i \in Instances |-> <<>>]
    /\ disk = [state |-> "absent", docs |-> NoText]
    /\ last = NoLast

InitChunk ==
    /\ text \in TextsOver(ChunkAlphabet, MaxTextLen)
    /\ chunk_size \in 1..MaxChunkSize
    /\ chunk_overlap \in 0..MaxOverlap
    /\ start = 0
    /\ chunks = <<>>
    /\ cpc = "entry"
    /\ iter = 0
    /\ windows = <<>>
    /\ StoreIdle
    /\ OthersIdle

NextChunk == ChunkEnter \/ ChunkIterate \/ ChunkReturn

SpecChunk == InitChunk /\ [][NextChunk]_vars

\* ------------------------------------ chunk_text on windows of up to 5 characters
MaxCutTextLen == 7
MaxCutSize == 5
MaxCutOverlap == 2

InitCut ==
    /\ text \in TextsOver(ChunkAlphabet, MaxCutTextLen)
    /\ chunk_size \in 1..MaxCutSize
    /\ chunk_overlap \in 0..MaxCutOverlap
    /\ start = 0
    /\ chunks = <<>>
    /\ cpc = "entry"
    /\ iter = 0
    /\ windows = <<>>
    /\ StoreIdle
    /\ OthersIdle

SpecCut == InitCut /\ [][NextChunk]_vars

\* ------------------------------------------------------- one store instance
Titles == {"t1", "t2"}
Metadatas == {[source |-> "upload"]}
StoreContents == {<<>>, <<" ">>, <<"a", " ", "b">>, <<"b">>, <<"A">>}
Queries == {<<>>, <<" ">>, <<"a">>, <<"B">>, <<"a", " ", "b">>, <<"b", " ", "a">>}
TopKs == {1, 3, TOP_K_RESULTS}
DocHashes == {get_file_hash(c) : c \in StoreContents}

ChunkIdle ==
    /\ text = <<>>
    /\ chunk_size = CHUNK_SIZE
    /\ chunk_overlap = CHUNK_OVERLAP
    /\ start = 0
    /\ chunks = <<>>
    /\ cpc = "done"
    /\ iter = 0
    /\ windows = <<>>

\* the files a store can be started on: none, or one an earlier run wrote
InitialSnapshots ==
    {[state |-> "absent", docs |-> NoText]}
    \cup {[state |-> "valid",
           docs |-> json_dump(<<MakeDocument("t1", c, [source |-> "upload"])>>)] :
            c \in {c \in StoreContents : ~ContentIsEmpty(c)}}

InitStore ==
    /\ disk \in InitialSnapshots
    /\ documents = [i \in Instances |-> LoadDocuments(disk)]
    /\ last = NoLast
    /\ ChunkIdle
    /\ OthersIdle

NextStore ==
    \/ \E t \in Titles, c \in StoreContents, m \in Metadatas,
          f \in {"none"} \cup SaveFailures : AddDocument(1, t, c, m, f)
    \/ \E h \in DocHashes, f \in {"none"} \cup SaveFailures : DeleteDocument(1, h, f)
    \/ \E f \in {"none"} \cup SaveFailures : ClearAll(1, f)
    \/ \E q \in Queries, k \in TopKs : Search(1, q, k)

SpecStore == InitStore /\ [][NextStore]_vars

\* ------------------------------------------- two sessions on the same file
MultiContents == {<<"a", " ", "b">>, <<"b">>, <<"A">>}

\* every write succeeds: what remains is the interleaving of the sessions
NextMulti ==
    \/ \E i \in Instances : Construct(i)
    \/ \E i \in Instances, c \in MultiContents, m \in Metadatas :
          AddDocument(i, "t1", c, m, "none")
    \/ \E i \in Instances, c \in MultiContents :
          DeleteDocument(i, get_file_hash(c), "none")
    \/ \E i \in Instances : ClearAll(i, "none")

SpecMulti == InitStore /\ [][NextMulti]_vars

\* --------------------------- a mutating call in steps, with readers between
\* add_document up to the call of _save_documents
\* (knowledge_base_simple.py:46-82)
BeginAdd(i, title, content, metadata) ==
    LET doc_hash == get_file_hash(content)
        appended == Append(documents[i], MakeDocument(title, content, metadata))
        done(outcome) == [NoLast EXCEPT !.op = "add", !.inst = i, !.outcome = outcome,
                                        !.hash = doc_hash]
    IN  /\ flight.pc = "idle"
        /\ IF ContentIsEmpty(content)
           THEN /\ last' = done("empty")
                /\ UNCHANGED <<documents, flight>>
           ELSE IF document_exists(documents[i], doc_hash)
           THEN /\ last' = done("duplicate")
                /\ UNCHANGED <<documents, flight>>
           ELSE /\ documents' = [documents EXCEPT ![i] = appended]
                /\ flight' = [pc |-> "saving", op |-> "add", inst |-> i,
                              hash |-> doc_hash, before |-> documents[i],
                              file |-> LoadDocuments(disk), target |-> appended]
                /\ UNCHANGED last
        /\ UNCHANGED disk
        /\ UNCHANGED <<chunkVars, ask, probe, extract, folder>>

\* delete_document up to the call of _save_documents
\* (knowledge_base_simple.py:176-181, 188-190)
BeginDelete(i, doc_hash) ==
    LET kept == DocsWithout(documents[i], doc_hash)
    IN  /\ flight.pc = "idle"
        /\ documents' = [documents EXCEPT ![i] = kept]
        /\ IF Len(kept) < Len(documents[i])
           THEN /\ flight' = [pc |-> "saving", op |-> "delete", inst |-> i,
                              hash |-> doc_hash, before |-> documents[i],
                              file |-> LoadDocuments(disk), target |-> kept]
                /\ UNCHANGED last
           ELSE /\ last' = [NoLast EXCEPT !.op = "delete", !.inst = i,
                                          !.outcome = "not_found", !.hash = doc_hash]
                /\ UNCHANGED flight
        /\ UNCHANGED disk
        /\ UNCHANGED <<chunkVars, ask, probe, extract, folder>>

\* clear_all up to the call of _save_documents (knowledge_base_simple.py:213-215)
BeginClear(i) ==
    /\ flight.pc = "idle"
    /\ documents' = [documents EXCEPT ![i] = <<>>]
    /\ flight' = [pc |-> "saving", op |-> "clear", inst |-> i, hash |-> 0,
                  before |-> documents[i], file |-> LoadDocuments(disk),
                  target |-> <<>>]
    /\ UNCHANGED <<disk, last>>
    /\ UNCHANGED <<chunkVars, ask, probe, extract, folder>>

\* _save_documents: makedirs and open(self.data_file, 'w'), which empties the
\* file (knowledge_base_simple.py:36-37)
SaveOpen(fail) ==
    /\ flight.pc = "saving"
    /\ fail \in {"after_open", "before_open"}
    /\ disk' = SaveDocuments(disk, documents[flight.inst], fail)
    /\ flight' = [flight EXCEPT !.pc = IF fail = "before_open" THEN "failed" ELSE "opened"]
    /\ UNCHANGED <<documents, last>>
    /\ UNCHANGED <<chunkVars, ask, probe, extract, folder>>

\* _save_documents: json.dump into the open file and close
\* (knowledge_base_simple.py:38-42)
SaveDump(fail) ==
    /\ flight.pc = "opened"
    /\ fail \in {"none", "mid_dump"}
    /\ disk' = SaveDocuments(disk, documents[flight.inst], fail)
    /\ flight' = [flight EXCEPT !.pc = IF SaveOk(fail) THEN "saved" ELSE "failed"]
    /\ UNCHANGED <<documents, last>>
    /\ UNCHANGED <<chunkVars, ask, probe, extract, folder>>

\* the rest of the handler after _save_documents returned
\* (knowledge_base_simple.py:82-88, 181-187, 215-218)
EndMutation ==
    /\ flight.pc \in {"saved", "failed"}
    /\ documents' =
         IF flight.pc = "saved" \/ flight.op = "clear" THEN documents
         ELSE IF flight.op = "add"
              THEN [documents EXCEPT ![flight.inst] = Pop(documents[flight.inst])]
              ELSE [documents EXCEPT ![flight.inst] = LoadDocuments(disk)]
    /\ last' = [NoLast EXCEPT !.op = flight.op, !.inst = flight.inst,
                              !.ret = (flight.pc = "saved"), !.hash = flight.hash,
                              !.outcome = IF flight.pc = "failed" THEN "save_failed"
                                          ELSE IF flight.op = "add" THEN "added"
                                          ELSE IF flight.op = "delete" THEN "deleted"
                                          ELSE "cleared"]
    /\ flight' = NoFlight
    /\ UNCHANGED disk
    /\ UNCHANGED <<chunkVars, ask, probe, extract, folder>>

\* list_documents on instance i (knowledge_base_simple.py:151-153)
ListDocuments(i) ==
    /\ last' = [NoLast EXCEPT !.op = "list", !.inst = i, !.ret = TRUE,
                              !.outcome = "listed",
                              !.results = get_all_documents(documents[i])]
    /\ UNCHANGED <<documents, disk>>
    /\ UNCHANGED <<chunkVars, flight, ask, probe, extract, folder>>

\* session 1 mutates in steps; session 2 is constructed on the same file and
\* another context lists the instance of session 1 (the instance
\* get_simple_knowledge_base caches is shared across sessions)
NextTorn ==
    \/ \E c \in MultiContents, m \in Metadatas : BeginAdd(1, "t1", c, m)
    \/ \E c \in MultiContents : BeginDelete(1, get_file_hash(c))
    \/ BeginClear(1)
    \/ \E f \in {"after_open", "before_open"} : SaveOpen(f)
    \/ \E f \in {"none", "mid_dump"} : SaveDump(f)
    \/ EndMutation
    \/ Construct(2)
    \/ ListDocuments(1)

SpecTorn == InitStore /\ [][NextTorn]_vars

\* ------------------------------------------- the score of a chunk that grows
MaxQueryLen == 2
MaxProbeLen == 3
MaxInserts == 2

ProbeAlphabet == {"a", "b", " "}

\* chunk with one more occurrence of query, put in at index pos
Inserted(chunk, query, pos) ==
    Slice(chunk, 0, pos) \o query \o Slice(chunk, pos, Len(chunk))

\* a chunk and a query are picked
InitScore ==
    /\ probe \in {[NoProbe EXCEPT !.pc = "chosen", !.query = q, !.chunk = c, !.grown = c] :
                    q \in TextsOver(ProbeAlphabet, MaxQueryLen),
                    c \in TextsOver(ProbeAlphabet, MaxProbeLen)}
    /\ ChunkIdle
    /\ StoreIdle
    /\ flight = NoFlight
    /\ ask = NoAsk
    /\ extract = NoExtract
    /\ folder = NoFolder

\* the loop body of search_documents on the chunk
\* (knowledge_base_simple.py:112-123)
ScoreChunk ==
    /\ probe.pc = "chosen"
    /\ probe' = [probe EXCEPT !.pc = "scored", !.score = Score(probe.chunk, probe.query)]
    /\ UNCHANGED <<chunkVars, storeVars, flight, ask, extract, folder>>

\* the stored chunk gains an occurrence of the query
InsertQuery(pos) ==
    /\ probe.pc \in {"scored", "grown"}
    /\ pos \in 0..Len(probe.grown)
    /\ Len(probe.grown) < Len(probe.chunk) + MaxInserts * Len(probe.query)
    /\ probe' = [probe EXCEPT !.pc = "grown",
                              !.grown = Inserted(probe.grown, probe.query, pos)]
    /\ UNCHANGED <<chunkVars, storeVars, flight, ask, extract, folder>>

\* the loop body of search_documents on the grown chunk
\* (knowledge_base_simple.py:112-123)
ScoreGrown ==
    /\ probe.pc = "grown"
    /\ probe' = [probe EXCEPT !.pc = "compared",
                              !.grown_score = Score(probe.grown, probe.query)]
    /\ UNCHANGED <<chunkVars, storeVars, flight, ask, extract, folder>>

NextScore ==
    \/ ScoreChunk
    \/ \E pos \in 0..(MaxProbeLen + MaxInserts * MaxQueryLen) : InsertQuery(pos)
    \/ ScoreGrown

SpecScore == InitScore /\ [][NextScore]_vars

\* ------------------------------------------------------ text of a PDF file
MaxPages == 3

PageTexts == {<<>>, <<"a">>, <<"b">>}

\* a page: extract_text() returns its text or raises
Pages == {[ok |-> TRUE, text |-> t] : t \in PageTexts} \cup {[ok |-> FALSE, text |-> <<>>]}

RECURSIVE PageSeqs(_)
PageSeqs(n) ==
    IF n = 0 THEN {<<>>}
    ELSE PageSeqs(n - 1) \cup
         {Append(s, p) : <<s, p>> \in {s \in PageSeqs(n - 1) : Len(s) = n - 1} \X Pages}

\* the .pdf branch entered: PdfReader built, text = "" (utils.py:37-39, 76-79)
InitExtract ==
    /\ extract \in {[NoExtract EXCEPT !.pc = "pages", !.pages = ps] : ps \in PageSeqs(MaxPages)}
    /\ ChunkIdle
    /\ StoreIdle
    /\ flight = NoFlight
    /\ ask = NoAsk
    /\ probe = NoProbe
    /\ folder = NoFolder

\* one iteration of for page in pdf_reader.pages; an exception of
\* extract_text() leaves the loop for the except clause, which returns None
\* (utils.py:40-41 and 56-58, 80-81 and 95-97)
ExtractPage ==
    /\ extract.pc = "pages"
    /\ extract.page < Len(extract.pages)
    /\ LET page == extract.pages[extract.page + 1]
       IN  IF page.ok
           THEN extract' = [extract EXCEPT !.text = extract.text \o page.text \o <<"\n">>,
                                           !.page = extract.page + 1]
           ELSE extract' = [extract EXCEPT !.pc = "returned",
                                           !.result = [none |-> TRUE, text |-> <<>>]]
    /\ UNCHANGED <<chunkVars, storeVars, flight, ask, probe, folder>>

\* the loop is over: return text (utils.py:42, 82)
ExtractReturn ==
    /\ extract.pc = "pages"
    /\ extract.page = Len(extract.pages)
    /\ extract' = [extract EXCEPT !.pc = "returned",
                                  !.result = [none |-> FALSE, text |-> extract.text]]
    /\ UNCHANGED <<chunkVars, storeVars, flight, ask, probe, folder>>

NextExtract == ExtractPage \/ ExtractReturn

SpecExtract == InitExtract /\ [][NextExtract]_vars

\* ------------------------------------------------------ the question handler
\* the keyword list of validate_finance_question (utils.py:138-156)
finance_keywords ==
    <<<<"m", "o", "n", "e", "y">>, <<"f", "i", "n", "a", "n", "c", "e">>,
      <<"f", "i", "n", "a", "n", "c", "i", "a", "l">>,
      <<"i", "n", "v", "e", "s", "t", "m", "e", "n", "t">>,
      <<"i", "n", "v", "e", "s", "t">>, <<"b", "u", "d", "g", "e", "t">>,
      <<"b", "u", "d", "g", "e", "t", "i", "n", "g">>,
      <<"s", "a", "v", "i", "n", "g", "s">>, <<"s", "a", "v", "e">>,
      <<"d", "e", "b", "t">>, <<"c", "r", "e", "d", "i", "t">>, <<"l", "o", "a", "n">>,
      <<"m", "o", "r", "t", "g", "a", "g", "e">>,
      <<"r", "e", "t", "i", "r", "e", "m", "e", "n", "t">>,
      <<"p", "e", "n", "s", "i", "o", "n">>, <<"t", "a", "x">>,
      <<"t", "a", "x", "e", "s">>, <<"i", "n", "c", "o", "m", "e">>,
      <<"e", "x", "p", "e", "n", "s", "e">>, <<"s", "p", "e", "n", "d", "i", "n", "g">>,
      <<"c", "o", "s", "t">>, <<"p", "r", "i", "c", "e">>, <<"s", "t", "o", "c", "k">>,
      <<"s", "t", "o", "c", "k", "s">>, <<"b", "o", "n", "d">>,
      <<"b", "o", "n", "d", "s">>, <<"p", "o", "r", "t", "f", "o", "l", "i", "o">>,
      <<"a", "s", "s", "e", "t">>, <<"l", "i", "a", "b", "i", "l", "i", "t", "y">>,
      <<"e", "q", "u", "i", "t", "y">>, <<"f", "u", "n", "d">>,
      <<"f", "u", "n", "d", "s">>, <<"a", "c", "c", "o", "u", "n", "t">>,
      <<"b", "a", "n", "k">>, <<"b", "a", "n", "k", "i", "n", "g">>,
      <<"i", "n", "s", "u", "r", "a", "n", "c", "e">>, <<"r", "i", "s", "k">>,
      <<"r", "e", "t", "u", "r", "n">>, <<"p", "r", "o", "f", "i", "t">>,
      <<"l", "o", "s", "s">>, <<"d", "i", "v", "i", "d", "e", "n", "d">>,
      <<"i", "n", "t", "e", "r", "e", "s", "t">>, <<"r", "a", "t", "e">>,
      <<"a", "p", "r">>, <<"a", "p", "y">>, <<"c", "o", "m", "p", "o", "u", "n", "d">>,
      <<"s", "i", "m", "p", "l", "e">>, <<"p", "r", "i", "n", "c", "i", "p", "a", "l">>,
      <<"b", "a", "l", "a", "n", "c", "e">>, <<"p", "a", "y", "m", "e", "n", "t">>,
      <<"p", "a", "y">>, <<"o", "w", "e">>, <<"o", "w", "i", "n", "g">>,
      <<"a", "f", "f", "o", "r", "d">>, <<"e", "m", "e", "r", "g", "e", "n", "c", "y">>,
      <<"g", "o", "a", "l">>, <<"w", "e", "a", "l", "t", "h">>, <<"r", "i", "c", "h">>,
      <<"p", "o", "o", "r">>, <<"4", "0", "1", "k">>, <<"i", "r", "a">>,
      <<"r", "o", "t", "h">>, <<"t", "r", "a", "d", "i", "t", "i", "o", "n", "a", "l">>,
      <<"s", "a", "l", "a", "r", "y">>, <<"w", "a", "g", "e">>,
      <<"w", "a", "g", "e", "s">>, <<"n", "e", "g", "o", "t", "i", "a", "t", "e">>,
      <<"n", "e", "g", "o", "t", "i", "a", "t", "i", "o", "n">>,
      <<"r", "a", "i", "s", "e">>, <<"p", "r", "o", "m", "o", "t", "i", "o", "n">>,
      <<"c", "o", "m", "p", "e", "n", "s", "a", "t", "i", "o", "n">>,
      <<"p", "a", "y", "c", "h", "e", "c", "k">>, <<"b", "o", "n", "u", "s">>,
      <<"b", "e", "n", "e", "f", "i", "t", "s">>, <<"c", "a", "r", "e", "e", "r">>,
      <<"j", "o", "b">>, <<"w", "o", "r", "k">>,
      <<"e", "m", "p", "l", "o", "y", "m", "e", "n", "t">>,
      <<"e", "m", "p", "l", "o", "y", "e", "r">>,
      <<"e", "m", "p", "l", "o", "y", "e", "e">>,
      <<"f", "r", "e", "e", "l", "a", "n", "c", "e">>,
      <<"c", "o", "n", "t", "r", "a", "c", "t", "o", "r">>,
      <<"h", "o", "u", "r", "l", "y">>, <<"h", "o", "u", "s", "e">>,
      <<"h", "o", "m", "e">>, <<"r", "e", "n", "t">>,
      <<"r", "e", "n", "t", "i", "n", "g">>, <<"b", "u", "y", "i", "n", "g">>,
      <<"s", "e", "l", "l", "i", "n", "g">>, <<"p", "r", "o", "p", "e", "r", "t", "y">>,
      <<"r", "e", "a", "l", "t", "o", "r">>,
      <<"d", "o", "w", "n", "p", "a", "y", "m", "e", "n", "t">>,
      <<"c", "l", "o", "s", "i", "n", "g">>,
      <<"r", "e", "f", "i", "n", "a", "n", "c", "e">>, <<"e", "q", "u", "i", "t", "y">>,
      <<"n", "e", "t", "w", "o", "r", "t", "h">>,
      <<"c", "a", "s", "h", "f", "l", "o", "w">>, <<"f", "r", "u", "g", "a", "l">>,
      <<"c", "h", "e", "a", "p">>, <<"e", "x", "p", "e", "n", "s", "i", "v", "e">>,
      <<"v", "a", "l", "u", "e">>, <<"w", "o", "r", "t", "h">>, <<"c", "o", "s", "t">>,
      <<"p", "r", "i", "c", "e">>, <<"d", "e", "a", "l">>,
      <<"b", "a", "r", "g", "a", "i", "n">>, <<"d", "i", "s", "c", "o", "u", "n", "t">>,
      <<"s", "a", "l", "e">>>>

\* sub in s for a non-empty sub
Contains(s, sub) ==
    \E i \in 0..(Len(s) - Len(sub)) : Slice(s, i, i + Len(sub)) = sub

\* a gate that lets every question through
validate_finance_question_any(question) == TRUE

\* utils.py:158-161
validate_finance_question(question) ==
    \E k \in 1..Len(finance_keywords) : Contains(Lower(question), finance_keywords[k])

\* a prompt without the sentence for missing material
create_prompt_no_fallback(question, context_documents) ==
    [context |-> [text |-> "Reference Material", materials |-> context_documents],
     question |-> question]

\* _create_prompt: the two parts of the template that vary
\* (gemini_client.py:63-68, 106-108)
create_prompt(question, context_documents) ==
    [context |-> IF context_documents # <<>>
                 THEN [text |-> "Reference Material", materials |-> context_documents]
                 ELSE [text |-> "No specific reference material provided.",
                       materials |-> <<>>],
     question |-> question]

\* doc.get('content', str(doc)) of each context document (gemini_client.py:31-34)
ContextTexts(context_documents) ==
    [k \in 1..Len(context_documents) |-> context_documents[k].content]

\* the answer of the except clause (gemini_client.py:58)
Apology ==
    <<"I'm sorry, I encountered an error while generating a response. Please try again.">>

\* what the screen shows: st.warning, st.markdown, st.error
Message(widget, label, body) == [widget |-> widget, label |-> label, body |-> body]

\* the handler's locals carried into the run for the next question
Received_stale(a, question) ==
    [a EXCEPT !.pc = "Received", !.question = question, !.path = <<"Received">>,
              !.shown = <<>>]

\* the script run a click starts: fresh locals, an empty page (app.py:293-298)
Received(a, question) ==
    [NoAsk EXCEPT !.pc = "Received", !.question = question, !.path = <<"Received">>]

\* the button is clicked with user_question in the text area (app.py:293-298)
Submit(question) ==
    /\ ask.pc \in {"idle", "Rejected", "Delivered", "Failed"}
    /\ IF Strip(question) = <<>>
       THEN ask' = [NoAsk EXCEPT
                      !.shown = <<Message("warning", "Please enter a question first.", <<>>)>>]
       ELSE ask' = Received(ask, question)
    /\ UNCHANGED <<chunkVars, storeVars, flight, probe, extract, folder>>

\* the gate fails: the warning box (app.py:301-308)
Reject ==
    /\ ask.pc = "Received"
    /\ ~validate_finance_question(ask.question)
    /\ ask' = [ask EXCEPT !.pc = "Rejected", !.path = Append(ask.path, "Rejected"),
                          !.shown = <<Message("markdown", "Not a finance question", <<>>)>>]
    /\ UNCHANGED <<chunkVars, storeVars, flight, probe, extract, folder>>

\* the gate passes: knowledge_base.search(user_question, top_k=3)
\* (app.py:301, 309-314)
Retrieve ==
    /\ ask.pc = "Received"
    /\ validate_finance_question(ask.question)
    /\ ask' = [ask EXCEPT !.pc = "Retrieved", !.path = Append(ask.path, "Retrieved"),
                          !.calls = Append(ask.calls, "search"),
                          !.relevant_docs = search_documents(documents[1], ask.question, 3)]
    /\ last' = [NoLast EXCEPT !.op = "search", !.inst = 1, !.ret = TRUE,
                              !.outcome = "searched", !.query = ask.question,
                              !.top_k = 3,
                              !.results = search_documents(documents[1], ask.question, 3)]
    /\ UNCHANGED <<documents, disk>>
    /\ UNCHANGED <<chunkVars, flight, probe, extract, folder>>

\* every context document as a source
Sources_all(context_documents) == context_documents

\* context_documents[:3] if context_documents else [] (gemini_client.py:52)
Sources(context_documents) ==
    IF context_documents # <<>> THEN Slice(context_documents, 0, 3) ELSE <<>>

\* the except clause of generate_response, and the handler showing what it
\* returned (gemini_client.py:55-61, app.py:323-329)
FailedWith(a, error) ==
    [a EXCEPT !.pc = "Failed", !.path = Append(a.path, "Failed"),
              !.response = [answer |-> Apology, confidence |-> 0, sources |-> <<>>],
              !.shown = <<Message("error", "Error generating response: ", error),
                          Message("markdown", "Expert Answer", <<>>),
                          Message("markdown", "", Apology)>>]

\* generate_response up to the return of model.generate_content
\* (app.py:317-320, gemini_client.py:25-46)
GenerateCall(external) ==
    /\ ask.pc = "Retrieved"
    /\ LET called == [ask EXCEPT
                        !.calls = Append(ask.calls, "generate"),
                        !.prompt = create_prompt(ask.question,
                                                 ContextTexts(ask.relevant_docs))]
       IN  IF external.kind = "raises"
           THEN ask' = FailedWith(called, external.body)
           ELSE ask' = [called EXCEPT !.pc = "Generated",
                                      !.path = Append(ask.path, "Generated"),
                                      !.raw = external]
    /\ UNCHANGED <<chunkVars, storeVars, flight, probe, extract, folder>>

\* response.text is read, the dictionary returned and the answer shown
\* (gemini_client.py:49-53, app.py:323-329)
Deliver ==
    /\ ask.pc = "Generated"
    /\ IF ask.raw.kind = "text"
       THEN ask' = [ask EXCEPT
                      !.pc = "Delivered", !.path = Append(ask.path, "Delivered"),
                      !.response = [answer |-> ask.raw.body,
                                    confidence |-> IF ask.relevant_docs # <<>> THEN 8 ELSE 5,
                                    sources |-> Sources(ask.relevant_docs)],
                      !.shown = <<Message("markdown", "Expert Answer", <<>>),
                                  Message("markdown", "", ask.raw.body)>>]
       ELSE ask' = FailedWith(ask, ask.raw.body)
    /\ UNCHANGED <<chunkVars, storeVars, flight, probe, extract, folder>>

AskQuestions ==
    {<<>>, <<" ">>, <<"h", "i">>, <<"t", "a", " ", "x">>, <<"t", "A", "x">>,
     <<"p", "a", "y", " ", "u", "p">>}

AskContents == {<<"t", "a", "x">>, <<"p", "a", "y">>, <<"t", "a", "x", " ", "u", "p">>}

ModelAnswers == {<<"o", "k">>, <<>>}

ExternalErrors == {<<"4", "2", "9">>}

\* what the external model does with a request: an answer, an exception of
\* generate_content, or a response whose .text raises
Externals ==
    {[kind |-> "text", body |-> a] : a \in ModelAnswers}
        \cup {[kind |-> k, body |-> e] : k \in {"raises", "no_text"}, e \in ExternalErrors}

\* a document is uploaded between two questions (app.py:126-171)
Upload(content, metadata) ==
    /\ ask.pc \in {"idle", "Rejected", "Delivered", "Failed"}
    /\ AddDocument(1, "t1", content, metadata, "none")

NextAsk ==
    \/ \E q \in AskQuestions : Submit(q)
    \/ Reject
    \/ Retrieve
    \/ \E x \in Externals : GenerateCall(x)
    \/ Deliver
    \/ \E c \in AskContents, m \in Metadatas : Upload(c, m)

InitAsk ==
    /\ ChunkIdle
    /\ StoreIdle
    /\ OthersIdle

SpecAsk == InitAsk /\ [][NextAsk]_vars

\* ------------------------------------------- search over documents of several chunks
RankChunks == {<<"a">>, <<"b">>, <<"a", " ", "b">>, <<"a", "a">>}

\* the chunk lists of a stored document: one chunk, or two for a content
\* longer than CHUNK_SIZE
RankChunkLists ==
    {<<c>> : c \in RankChunks} \cup {<<c, d>> : c \in RankChunks, d \in RankChunks}

RECURSIVE JoinChunks(_)
JoinChunks(cs) ==
    IF cs = <<>> THEN <<>>
    ELSE IF Len(cs) = 1 THEN cs[1]
    ELSE cs[1] \o <<" ">> \o JoinChunks(Tail(cs))

\* a document dictionary as add_document stored it (knowledge_base_simple.py:68-78)
RankDocument(title, cs) ==
    [title |-> title,
     filename |-> title,
     file_type |-> "text",
     doc_hash |-> get_file_hash(JoinChunks(cs)),
     content |-> JoinChunks(cs),
     chunks |-> cs,
     total_chunks |-> Len(cs),
     metadata |-> [source |-> "upload"]]

\* self.documents: up to two documents of different content
RankStores ==
    {<<>>}
        \cup {<<RankDocument("t1", cs)>> : cs \in RankChunkLists}
        \cup {<<RankDocument("t1", cs), RankDocument("t2", ds)>> :
                <<cs, ds>> \in {p \in RankChunkLists \X RankChunkLists :
                                  JoinChunks(p[1]) # JoinChunks(p[2])}}

InitRank ==
    /\ \E docs \in RankStores :
          /\ documents = [i \in Instances |-> docs]
          /\ disk = [state |-> "valid", docs |-> json_dump(docs)]
    /\ last = NoLast
    /\ ChunkIdle
    /\ OthersIdle

NextRank == \E q \in Queries, k \in TopKs : Search(1, q, k)

SpecRank == InitRank /\ [][NextRank]_vars

\* ------------------------------------------- the gate on questions of a few letters
MaxQuestionLen == 4

GateAlphabet == {"p", "a", "y", "r", "A", " "}

\* a question is in the text area, the store is empty or holds a document
InitGate ==
    /\ ask \in {Received(NoAsk, q) :
                  q \in {q \in TextsOver(GateAlphabet, MaxQuestionLen) : Strip(q) # <<>>}}
    /\ \E docs \in {<<>>, <<MakeDocument("t1", <<"p", "a", "y">>, [source |-> "upload"])>>} :
          /\ documents = [i \in Instances |-> docs]
          /\ disk = [state |-> "valid", docs |-> json_dump(docs)]
    /\ last = NoLast
    /\ ChunkIdle
    /\ flight = NoFlight
    /\ probe = NoProbe
    /\ extract = NoExtract
    /\ folder = NoFolder

NextGate == Reject \/ Retrieve

SpecGate == InitGate /\ [][NextGate]_vars

\* ------------------------------- generate_response on up to four passages
MaxPassages == 4

\* a passage as search returns it (knowledge_base_simple.py:126-134)
Passage(title, content, score) ==
    [content |-> content, title |-> title, filename |-> title, file_type |-> "text",
     similarity |-> Similarity(score, <<"t", "a", "x">>), chunk_index |-> 0,
     score |-> score]

PassageSet ==
    {Passage("t1", <<"t", "a", "x">>, 4), Passage("t2", <<"t", "a", "x", " ", "u", "p">>, 4),
     Passage("t3", <<"a", " ", "t", "a", "x">>, 4)}

RECURSIVE PassageSeqs(_)
PassageSeqs(n) ==
    IF n = 0 THEN {<<>>}
    ELSE PassageSeqs(n - 1) \cup
         {Append(s, p) : <<s, p>> \in {s \in PassageSeqs(n - 1) : Len(s) = n - 1} \X PassageSet}

\* generate_response(question, context_documents) is about to be called
InitGenerate ==
    /\ ask \in {[NoAsk EXCEPT !.pc = "Retrieved", !.question = <<"t", "a", "x">>,
                              !.path = <<"Received", "Retrieved">>,
                              !.calls = <<"search">>, !.relevant_docs = ds] :
                  ds \in PassageSeqs(MaxPassages)}
    /\ ChunkIdle
    /\ StoreIdle
    /\ flight = NoFlight
    /\ probe = NoProbe
    /\ extract = NoExtract
    /\ folder = NoFolder

NextGenerate ==
    \/ \E x \in Externals : GenerateCall(x)
    \/ Deliver

SpecGenerate == InitGenerate /\ [][NextGenerate]_vars

\* ------------------------------------------------ the scan of data/documents
MaxRuns == 3

\* a file of the folder: name, suffix, and what process_document returns for
\* it (None when it cannot be read)
FolderFile(name, suffix, readable, content) ==
    [name |-> name, suffix |-> suffix, readable |-> readable, content |-> content]

\* document_files: the *.txt, then the *.pdf, then the *.docx (app.py:135-139)
AllFiles ==
    <<FolderFile("a.txt", ".txt", TRUE, <<"a", " ", "b">>),
      FolderFile("d.txt", ".txt", TRUE, <<" ">>),
      FolderFile("b.pdf", ".pdf", TRUE, <<"a", " ", "b">>),
      FolderFile("e.pdf", ".pdf", FALSE, <<>>),
      FolderFile("c.docx", ".docx", TRUE, <<"b">>),
      FolderFile("f.docx", ".docx", TRUE, <<>>)>>

Folders ==
    {SelectSeq(AllFiles, LAMBDA f : f.name \in names) :
        names \in SUBSET {AllFiles[k].name : k \in 1..Len(AllFiles)}}

\* the metadata load_predefined_documents passes (app.py:160-165)
FileMetadata(file) ==
    [file_type |-> file.suffix, file_size |-> Len(file.content),
     added_date |-> "now", source |-> "predefined"]

\* a loop body that adds every file it can read
IngestFile_always(docs, file) ==
    IF file.readable /\ file.content # <<>>
    THEN Append(docs, MakeDocument(file.name, file.content, FileMetadata(file)))
    ELSE docs

\* the loop body for one file: the title test, process_document, and
\* add_document with its own tests (app.py:146-167,
\* knowledge_base_simple.py:53-80)
IngestFile(docs, file) ==
    IF \E k \in 1..Len(docs) : get_all_documents(docs)[k].title = file.name
    THEN docs
    ELSE IF ~file.readable \/ file.content = <<>>
    THEN docs
    ELSE IF ContentIsEmpty(file.content)
              \/ document_exists(docs, get_file_hash(file.content))
    THEN docs
    ELSE Append(docs, MakeDocument(file.name, file.content, FileMetadata(file)))

RECURSIVE IngestAll(_, _)
IngestAll(docs, files) ==
    IF files = <<>> THEN docs
    ELSE IngestAll(IngestFile(docs, Head(files)), Tail(files))

\* load_predefined_documents on the store of session i, every save
\* succeeding (app.py:126-171)
LoadPredefined(i) ==
    /\ folder.runs < MaxRuns
    /\ documents' = [documents EXCEPT ![i] = IngestAll(documents[i], folder.files)]
    /\ disk' = IF IngestAll(documents[i], folder.files) # documents[i]
               THEN SaveDocuments(disk, IngestAll(documents[i], folder.files), "none")
               ELSE disk
    /\ last' = [NoLast EXCEPT !.op = "scan", !.inst = i, !.ret = TRUE,
                              !.outcome = "scanned"]
    /\ folder' = [folder EXCEPT !.runs = folder.runs + 1]
    /\ UNCHANGED <<chunkVars, flight, ask, probe, extract>>

InitScan ==
    /\ folder \in {[NoFolder EXCEPT !.files = fs] : fs \in Folders}
    /\ ChunkIdle
    /\ StoreIdle
    /\ flight = NoFlight
    /\ ask = NoAsk
    /\ probe = NoProbe
    /\ extract = NoExtract

\* the app scans the folder at start and can be restarted on its file
NextScan ==
    \/ LoadPredefined(1)
    \/ Construct(1)
    \/ ListDocuments(1)

SpecScan == InitScan /\ [][NextScan]_vars

\* ------------------------------------------------------------------ claims
HashesOf(docs) == [k \in 1..Len(docs) |-> docs[k].doc_hash]

CountHash(docs, h) == Cardinality({k \in 1..Len(docs) : docs[k].doc_hash = h})

BlankHashes == {get_file_hash(c) : c \in {c \in StoreContents : Strip(c) = <<>>}}

\* C1: chunk_text terminates for every text and every chunk_overlap,
\* chunk_overlap >= chunk_size included: every iteration of the loop moves
\* the window start strictly forward.
C1_StartStrictlyIncreases ==
    [][(cpc = "loop" /\ iter' = iter + 1) => start' > start]_vars

\* C2: a search for the empty string or for whitespace alone returns the
\* empty list, whatever the store holds.
C2_BlankQueryFindsNothing ==
    (last.op = "search" /\ Strip(last.query) = <<>>) => last.results = <<>>

\* what a mutation that ran alone on the latest snapshot would leave there
SerialOutcome(l, hs) ==
    IF l.op = "add" THEN (IF \E k \in 1..Len(hs) : hs[k] = l.hash THEN hs
                          ELSE Append(hs, l.hash))
    ELSE IF l.op = "delete" THEN SelectSeq(hs, LAMBDA x : x # l.hash)
    ELSE <<>>

\* C3: with sessions interleaving, no successful mutation is lost: after
\* every successful add, delete or clear the file holds what the mutation
\* makes of the latest snapshot.
C3_NoMutationLost ==
    [][(last'.ret /\ last'.op \in {"add", "delete", "clear"})
          => /\ disk'.state = "valid"
             /\ HashesOf(LoadDocuments(disk'))
                    = SerialOutcome(last', HashesOf(LoadDocuments(disk)))]_vars

\* C4: a write that fails, wherever it fails, leaves the file holding the
\* collection it held before the operation.
C4_FailedWriteKeepsSnapshot ==
    [][last'.outcome = "save_failed" => disk' = disk]_vars

\* C5: clear_all empties memory and file and returns True, or returns False
\* with memory equal to the file; memory is never empty over a file that
\* still holds documents.
C5_ClearAllNeverPartial ==
    last.op = "clear"
        => \/ /\ last.ret
              /\ documents[last.inst] = <<>>
              /\ disk = [state |-> "valid", docs |-> json_dump(<<>>)]
           \/ /\ ~last.ret
              /\ documents[last.inst] = LoadDocuments(disk)

\* C6: when the write fails in add_document or delete_document the call
\* returns False and memory equals what the file holds: the added document
\* is not in memory, the document to delete still is.
C6_FailedSaveRollsBack ==
    (last.op \in {"add", "delete"} /\ last.outcome = "save_failed")
        => /\ ~last.ret
           /\ documents[last.inst] = LoadDocuments(disk)
           /\ last.op = "add" => CountHash(documents[last.inst], last.hash) = 0
           /\ last.op = "delete" => CountHash(documents[last.inst], last.hash) = 1

\* C7: add_document of content the instance already holds, under any title,
\* returns False, writes nothing to memory or file, and leaves exactly one
\* document with that content.
C7_SecondAddRejected ==
    [][(last'.op = "add" /\ CountHash(documents[last'.inst], last'.hash) >= 1)
          => /\ ~last'.ret
             /\ documents' = documents
             /\ disk' = disk
             /\ CountHash(documents'[last'.inst], last'.hash) = 1]_vars

C7_Witness ==
    /\ last.op = "add"
    /\ last.outcome = "duplicate"
    /\ \E k \in 1..Len(documents[1]) :
          documents[1][k].doc_hash = last.hash /\ documents[1][k].title = "t2"

DistinctOwnHashes(docs) ==
    /\ \A j, k \in 1..Len(docs) : docs[j].doc_hash = docs[k].doc_hash => j = k
    /\ \A k \in 1..Len(docs) : docs[k].doc_hash = Digest(docs[k].content, 1)

\* C8: in an instance loaded from a snapshot with distinct doc_hash values,
\* after any calls of add_document, delete_document and clear_all no two
\* documents in memory or in the file share a doc_hash, and every doc_hash
\* is the hash of the document's own content.
C8_HashesDistinctAndOwn ==
    DistinctOwnHashes(documents[1]) /\ DistinctOwnHashes(LoadDocuments(disk))

C8_Witness ==
    /\ Len(documents[1]) >= 2
    /\ Len(LoadDocuments(disk)) >= 2
    /\ last.op = "add"
    /\ last.outcome = "save_failed"

\* C9: add_document of empty or whitespace-only content, add_document of
\* content already stored and delete_document of a doc_hash not present
\* return False and leave memory and file as they were.
C9_RejectedChangesNothing ==
    [][(\/ last'.op = "add" /\ last'.hash \in BlankHashes
        \/ last'.op = "add" /\ CountHash(documents[last'.inst], last'.hash) >= 1
        \/ last'.op = "delete" /\ CountHash(documents[last'.inst], last'.hash) = 0)
          => /\ ~last'.ret
             /\ documents' = documents
             /\ disk' = disk]_vars

C9_Witness ==
    /\ last.outcome \in {"empty", "not_found"}
    /\ documents[1] # <<>>
    /\ disk.state = "valid"

\* the doc_hash values list_documents shows
ListedHashes(docs) ==
    {get_all_documents(docs)[d].doc_hash : d \in 1..Len(get_all_documents(docs))}

\* C10: once delete_document(id) has returned True, and until content with
\* that hash is added again, list_documents does not contain id and no
\* search result is a chunk of the deleted document, whatever is done to
\* the other documents: a document that is not listed stays unlisted
\* through every call but an add of its content, and every search returns
\* chunks of listed documents only.
C10_DeletedStaysGone ==
    [][LET before == ListedHashes(documents[1])
           after == ListedHashes(documents'[1])
       IN  /\ \A h \in DocHashes :
                (/\ \/ h \notin before
                    \/ last'.op = "delete" /\ last'.ret /\ last'.hash = h
                 /\ ~(last'.op = "add" /\ last'.hash = h))
                   => h \notin after
           /\ last'.op = "search"
                => \A n \in 1..Len(last'.results) :
                       Digest(last'.results[n].content, 1) \in after]_vars

C10_Witness ==
    /\ last.op = "delete"
    /\ last.ret
    /\ documents[1] # <<>>
    /\ search_documents(documents[1], <<"b">>, TOP_K_RESULTS) # <<>>

\* C11: a read that runs while another context is in the middle of
\* add_document, delete_document or clear_all sees the collection from before
\* the mutation or the one it is about to leave, never anything else: a
\* session constructed then loads one of the two from the file, and a
\* listing of the mutating instance shows one of the two.
C11_ReadsSeeBeforeOrAfter ==
    [][(flight.pc # "idle" /\ flight' = flight)
          => /\ last'.op = "construct"
                  => documents'[last'.inst] \in {flight.file, flight.target}
             /\ last'.op = "list"
                  => HashesOf(last'.results)
                       \in {HashesOf(flight.before), HashesOf(flight.target)}]_vars

\* the chunk cut from window w is among the returned chunks
WindowKept(w) ==
    \E k \in 1..Len(chunks) : Strip(chunks[k]) = Strip(Slice(text, w[1], w[2]))

\* C18: when chunk_text returns, the windows it cut leave no gap: the first
\* starts at 0, each next one starts at or before the cut end of the one
\* before, the slice of the last one ends at len(text), and every character
\* that is not whitespace lies in a window whose chunk was returned.
C18_WindowsLeaveNoGap ==
    cpc = "done" =>
        /\ windows # <<>>
        /\ windows[1][1] = 0
        /\ Min(windows[Len(windows)][2], Len(text)) = Len(text)
        /\ \A k \in 2..Len(windows) : windows[k][1] <= windows[k - 1][2]
        /\ \A j \in 0..(Len(text) - 1) :
              ~IsSpace(text[j + 1]) =>
                  \E k \in 1..Len(windows) :
                      /\ windows[k][1] <= j
                      /\ j < windows[k][2]
                      /\ WindowKept(windows[k])

\* a call that returned after cutting three windows, the second overlapping the first
C18_Witness ==
    /\ cpc = "done"
    /\ Len(windows) >= 3
    /\ windows[2][1] < windows[1][2]
    /\ \E j \in 1..Len(text) : ~IsSpace(text[j])

\* C19: chunk_text returns at least one chunk for every non-empty text, and
\* no returned chunk is the empty string, the empty text and whitespace-only
\* texts longer than chunk_size included.
C19_ChunksNonEmpty ==
    cpc = "done" =>
        /\ text # <<>> => chunks # <<>>
        /\ \A k \in 1..Len(chunks) : chunks[k] # <<>>

\* the number of distinct words of the lowercased query, plus 3
Normaliser(query) == Cardinality(WordSet(Lower(query))) + 3

\* C16: every result a search returns carries
\* similarity = min(score / (distinct query words + 3), 1.0), and that value
\* lies between 0 and 1.
C16_SimilarityNormalised ==
    last.op = "search" =>
        \A k \in 1..Len(last.results) :
            LET r == last.results[k]
                d == Normaliser(last.query)
            IN  /\ r.similarity.den > 0
                /\ 0 <= r.similarity.num
                /\ r.similarity.num <= r.similarity.den
                /\ IF r.score >= d
                   THEN r.similarity.num = r.similarity.den
                   ELSE r.similarity.num * d = r.score * r.similarity.den

\* a search that returned a result whose similarity is strictly below 1
C16_Witness ==
    /\ last.op = "search"
    /\ \E k \in 1..Len(last.results) :
          /\ 0 < last.results[k].similarity.num
          /\ last.results[k].similarity.num < last.results[k].similarity.den

\* occurrences of the query in a chunk, counted left to right without overlap
Occurrences(chunk, query) == Count(Lower(chunk), Lower(query))

\* C17: for a fixed query, a chunk that gains exact occurrences of the query,
\* so that the count of non-overlapping occurrences rises, gets a strictly
\* higher score 3 * exact matches + word overlap.
C17_MoreOccurrencesScoreHigher ==
    (probe.pc = "compared"
        /\ Occurrences(probe.grown, probe.query) > Occurrences(probe.chunk, probe.query))
      => probe.grown_score > probe.score

\* a chunk that gained an occurrence and lost a word of the overlap with it
C17_Witness ==
    /\ probe.pc = "compared"
    /\ Occurrences(probe.grown, probe.query) > Occurrences(probe.chunk, probe.query)
    /\ Cardinality(WordSet(Lower(probe.query)) \cap WordSet(Lower(probe.grown)))
         < Cardinality(WordSet(Lower(probe.query)) \cap WordSet(Lower(probe.chunk)))

\* the texts of the pages in page order, a failing page as the empty text,
\* each followed by a newline
RECURSIVE PageOrderText(_)
PageOrderText(ps) ==
    IF ps = <<>> THEN <<>>
    ELSE (IF Head(ps).ok THEN Head(ps).text ELSE <<>>) \o <<"\n">> \o PageOrderText(Tail(ps))

\* C20: the text extraction of a PDF returns the page texts in page order,
\* each followed by a newline, a page whose extraction fails counting as
\* empty text; it never gives the document up because of a failing page.
C20_FailingPagesAreEmpty ==
    extract.pc = "returned" =>
        /\ ~extract.result.none
        /\ extract.result.text = PageOrderText(extract.pages)

\* C12: when the external model call raises, the processing ends Failed with
\* the fixed apology and no sources as the response, and the text of the
\* external error is in nothing the user is shown.
C12_FailureShowsOnlyApology ==
    ask.pc = "Failed" =>
        /\ ask.response = [answer |-> Apology, confidence |-> 0, sources |-> <<>>]
        /\ \A k \in 1..Len(ask.shown) : ask.shown[k].body \notin ExternalErrors

\* no keyword of the list occurs in the lowercased question
GateFails(question) ==
    \A k \in 1..Len(finance_keywords) : ~Contains(Lower(question), finance_keywords[k])

\* C13: a question the gate turns down is rejected without a call of search
\* or generate_response for it.
C13_RejectedWithoutCalls ==
    (ask.pc # "idle" /\ GateFails(ask.question)) =>
        /\ ask.pc \in {"Received", "Rejected"}
        /\ ask.calls = <<>>
        /\ ask.relevant_docs = <<>>
        /\ ask.prompt = NoPrompt
        /\ ~(last.op = "search" /\ last.query = ask.question)

\* a question without a keyword rejected while the store holds a document
C13_Witness ==
    /\ ask.pc = "Rejected"
    /\ GateFails(ask.question)
    /\ documents[1] # <<>>

AllowedPaths ==
    {<<"Received">>,
     <<"Received", "Rejected">>,
     <<"Received", "Retrieved">>,
     <<"Received", "Retrieved", "Generated">>,
     <<"Received", "Retrieved", "Generated", "Delivered">>,
     <<"Received", "Retrieved", "Failed">>,
     <<"Received", "Retrieved", "Generated", "Failed">>}

\* C14: the processing of a question follows Received, Rejected or Received,
\* Retrieved, Generated, Delivered, with Failed entered from Retrieved or
\* Generated only; a terminal state is left only for the next question;
\* generate_response is called only after search returned; and a new
\* question starts with nothing of the one before.
C14_AllowedPathsOnly ==
    [][/\ ask'.pc # "idle" =>
            /\ ask'.path \in AllowedPaths
            /\ ask'.pc = ask'.path[Len(ask'.path)]
       /\ ask'.calls \in {<<>>, <<"search">>, <<"search", "generate">>}
       /\ ask'.calls # <<>> => (Len(ask'.path) >= 2 /\ ask'.path[2] = "Retrieved")
       /\ Len(ask'.calls) = 2 => ask.pc \in {"Retrieved", "Generated", "Delivered", "Failed"}
       /\ ask.pc \in {"Rejected", "Delivered", "Failed"} =>
            (ask' = ask \/ ask'.path \in {<<>>, <<"Received">>})
       /\ ask'.path = <<"Received">> =>
            ask' = [NoAsk EXCEPT !.pc = "Received", !.question = ask'.question,
                                 !.path = <<"Received">>]]_vars

\* a question that failed after the model had responded
C14_Witness ==
    ask.path = <<"Received", "Retrieved", "Generated", "Failed">>

\* C15: when search finds nothing for a question that passed the gate,
\* generate_response is still called, with no passages; the prompt says that
\* no reference material was provided; the processing fails only if the
\* external call does; and the delivered answer has no sources.
C15_EmptyRetrievalStillAnswers ==
    (ask.pc \in {"Generated", "Delivered", "Failed"} /\ ask.relevant_docs = <<>>) =>
        /\ ask.calls = <<"search", "generate">>
        /\ ask.prompt.context.text = "No specific reference material provided."
        /\ ask.prompt.context.materials = <<>>
        /\ ask.prompt.question = ask.question
        /\ ask.pc = "Failed" => ask.raw.kind # "text"
        /\ ask.pc = "Delivered" =>
              /\ ask.response.sources = <<>>
              /\ ask.response.answer = ask.raw.body
              /\ ask.shown[Len(ask.shown)].body = ask.raw.body

\* an answer delivered for a question nothing in a non-empty store matched
C15_Witness ==
    /\ ask.pc = "Delivered"
    /\ ask.relevant_docs = <<>>
    /\ documents[1] # <<>>

Ranked == SortByScore(ScoredChunks(documents[last.inst], last.query))

\* similarity >= 0.35, half the configured threshold
AtLeastFloor(r) == r.similarity.num * 200 >= SIMILARITY_THRESHOLD_PCT * r.similarity.den

FirstK(seq, k) == SubSeq(seq, 1, IF k < Len(seq) THEN k ELSE Len(seq))

\* C24: search returns the first top_k, in ranked order, of the ranked
\* chunks whose similarity reaches the floor: a chunk that passes the floor
\* is left out only when top_k passing chunks are ranked before it.
C24_FloorThenTopK ==
    last.op = "search" =>
        last.results = FirstK(SelectSeq(Ranked, AtLeastFloor), last.top_k)

\* a search with more ranked chunks than top_k, one of them under the floor
C24_Witness ==
    /\ last.op = "search"
    /\ last.results # <<>>
    /\ Len(Ranked) > last.top_k
    /\ \E k \in 1..Len(Ranked) : ~AtLeastFloor(Ranked[k])

\* where a result came from: the index of its document, then its chunk_index
DocIndex(r) == CHOOSE k \in 1..Len(documents[last.inst]) :
                   documents[last.inst][k].title = r.title

InsertedBefore(r, q) ==
    \/ DocIndex(r) < DocIndex(q)
    \/ DocIndex(r) = DocIndex(q) /\ r.chunk_index < q.chunk_index

\* C25: the results of a search are ordered by score descending, and
\* results of equal score stand in insertion order: by document, then by
\* chunk_index.
C25_RankedStable ==
    last.op = "search" =>
        \A k \in 1..Len(last.results), l \in 1..Len(last.results) :
            k < l =>
                /\ last.results[k].score >= last.results[l].score
                /\ last.results[k].score = last.results[l].score
                      => InsertedBefore(last.results[k], last.results[l])

\* results of equal score from one document and from two documents
C25_Witness ==
    /\ last.op = "search"
    /\ Len(last.results) >= 3
    /\ last.results[1].score = last.results[2].score
    /\ last.results[1].title = last.results[2].title
    /\ last.results[2].score = last.results[3].score
    /\ last.results[2].title # last.results[3].title

\* C26: the score of a result is 3 times the count of the lowercased query
\* in the lowercased chunk plus the number of words they share; it is never
\* 0; and the content of a result is chunks[chunk_index] of the stored
\* document whose filename and file_type it carries.
C26_ScoreAndProvenance ==
    last.op = "search" =>
        \A k \in 1..Len(last.results) :
            LET r == last.results[k]
            IN  /\ r.score = 3 * Count(Lower(r.content), Lower(last.query))
                               + Cardinality(WordSet(Lower(last.query))
                                                \cap WordSet(Lower(r.content)))
                /\ r.score > 0
                /\ \E d \in 1..Len(documents[last.inst]) :
                      LET doc == documents[last.inst][d]
                      IN  /\ doc.filename = r.filename
                          /\ doc.file_type = r.file_type
                          /\ r.chunk_index + 1 \in 1..Len(doc.chunks)
                          /\ doc.chunks[r.chunk_index + 1] = r.content

\* a result that is the second chunk of the second document, scored on both terms
C26_Witness ==
    /\ last.op = "search"
    /\ \E k \in 1..Len(last.results) :
          /\ last.results[k].chunk_index = 1
          /\ last.results[k].title = "t2"
          /\ Count(Lower(last.results[k].content), Lower(last.query)) > 0
          /\ last.results[k].score > 3

\* the highest index of character c in text[st : st + chunk_size], -1 when
\* there is none
LastInWindow(c, st) ==
    LET found == {j \in st..(st + chunk_size - 1) : j < Len(text) /\ text[j + 1] = c}
    IN  IF found = {} THEN -1 ELSE CHOOSE j \in found : \A i \in found : i <= j

PastMidpoint(j, st) == j # -1 /\ j > st + chunk_size \div 2

\* C27: a window whose raw end start + chunk_size lies before the end of the
\* text is cut just after its last period if that lies past the midpoint,
\* else at its last space if that lies past the midpoint, else at
\* start + chunk_size; and no chunk is longer than chunk_size.
C27_CutAtBoundary ==
    /\ \A k \in 1..Len(windows) :
          LET st == windows[k][1]
          IN  st + chunk_size < Len(text) =>
                  windows[k][2] =
                      IF PastMidpoint(LastInWindow(".", st), st)
                      THEN LastInWindow(".", st) + 1
                      ELSE IF PastMidpoint(LastInWindow(" ", st), st)
                           THEN LastInWindow(" ", st)
                           ELSE st + chunk_size
    /\ \A k \in 1..Len(chunks) : Len(chunks[k]) <= chunk_size

\* a call that cut one window after a period and one at a space, both short
\* of start + chunk_size
C27_Witness ==
    /\ cpc = "done"
    /\ \E k \in 1..Len(windows) :
          /\ windows[k][1] + chunk_size < Len(text)
          /\ windows[k][2] < windows[k][1] + chunk_size
          /\ text[windows[k][2]] = "."
    /\ \E k \in 1..Len(windows) :
          /\ windows[k][1] + chunk_size < Len(text)
          /\ windows[k][2] < windows[k][1] + chunk_size
          /\ text[windows[k][2] + 1] = " "
          /\ text[windows[k][2]] # "."

\* C30: with chunk_size >= 1 and 0 <= chunk_overlap <= chunk_size div 2
\* every iteration of the loop of chunk_text moves the window start forward
\* by at least one position, a cut short of start + chunk_size lying past
\* the midpoint of the window, so the loop ends within len(text) iterations.
C30_ProgressUnderHalfOverlap ==
    [][(cpc = "loop" /\ iter' = iter + 1
          /\ chunk_size >= 1 /\ chunk_overlap >= 0
          /\ chunk_overlap <= chunk_size \div 2)
         => /\ start' >= start + 1
            /\ iter' <= start'
            /\ windows'[Len(windows')][2] > start + chunk_size \div 2]_vars

\* a call under the precondition that returned after three windows, one cut
\* at a boundary and followed by an overlapping window
C30_Witness ==
    /\ cpc = "done"
    /\ chunk_overlap >= 1
    /\ chunk_overlap <= chunk_size \div 2
    /\ Len(windows) >= 3
    /\ \E k \in 1..(Len(windows) - 1) :
          /\ windows[k][2] < windows[k][1] + chunk_size
          /\ windows[k + 1][1] < windows[k][2]

\* character c of a question is letter k of a keyword when lowercased
FoldsTo(c, k) == c = k \/ (c = "A" /\ k = "a") \/ (c = "B" /\ k = "b")

OccursAt(q, kw, i) ==
    /\ i + Len(kw) <= Len(q)
    /\ \A j \in 1..Len(kw) : FoldsTo(q[i + j], kw[j])

HasKeyword(q) ==
    \E k \in 1..Len(finance_keywords), i \in 0..Len(q) : OccursAt(q, finance_keywords[k], i)

\* C22: validate_finance_question is true exactly when a keyword of the list
\* occurs in the lowercased question, whatever the store holds: a question
\* is rejected if and only if no keyword occurs in it.
C22_GateIsKeywordSubstring ==
    /\ ask.pc = "Rejected" => ~HasKeyword(ask.question)
    /\ ask.pc = "Retrieved" => HasKeyword(ask.question)

\* a question let through that holds a keyword only once it is lowercased
C22_Witness ==
    /\ ask.pc = "Retrieved"
    /\ HasKeyword(ask.question)
    /\ documents[1] # <<>>
    /\ \A k \in 1..Len(finance_keywords), i \in 0..Len(ask.question) :
          Slice(ask.question, i, i + Len(finance_keywords[k])) # finance_keywords[k]

\* C23: a delivered response carries as sources the first min(3, n) of the
\* n passages retrieved, in their order and as they were, while the prompt
\* holds all n; a failed generation carries no sources.
C23_SourcesAreFirstThree ==
    /\ ask.pc = "Delivered" =>
          /\ Len(ask.response.sources)
                = (IF Len(ask.relevant_docs) < 3 THEN Len(ask.relevant_docs) ELSE 3)
          /\ \A k \in 1..Len(ask.response.sources) :
                ask.response.sources[k] = ask.relevant_docs[k]
          /\ Len(ask.prompt.context.materials) = Len(ask.relevant_docs)
    /\ ask.pc = "Failed" => ask.response.sources = <<>>

\* an answer delivered for four passages
C23_Witness ==
    /\ ask.pc = "Delivered"
    /\ Len(ask.relevant_docs) = 4
    /\ ask.relevant_docs[1] # ask.relevant_docs[2]

Category(suffix) ==
    IF suffix = ".txt" THEN "text" ELSE IF suffix = ".pdf" THEN "pdf" ELSE "docx"

\* C29: a document the folder scan ingested carries as file_type the
\* extension or category of its file, in the store and in what
\* list_documents reports.
C29_FileTypeIsOrigin ==
    \A k \in 1..Len(documents[1]), f \in 1..Len(folder.files) :
        folder.files[f].name = documents[1][k].filename =>
            /\ documents[1][k].file_type
                  \in {folder.files[f].suffix, Category(folder.files[f].suffix)}
            /\ get_all_documents(documents[1])[k].file_type
                  \in {folder.files[f].suffix, Category(folder.files[f].suffix)}

====
